---- MODULE Spec2Model ----
(***************************************************************************)
(* The unified messaging server (api/models.py, api/views.py, api/urls.py) *)
(* as a state machine: a relational store holding Conversation and Message *)
(* rows, and request handlers (workers) that run the views concurrently.   *)
(*                                                                         *)
(* Store semantics.  The views wrap their writes in transaction.atomic().  *)
(* A transaction reads the committed rows (READ COMMITTED) and its own     *)
(* writes; its writes become visible to the others when the atomic block   *)
(* exits without rolling back.  Hence a handler touches the shared store   *)
(* at two points: the SELECT of get_or_create (BeginIngest) and the exit   *)
(* of the atomic block (EndIngest).  The rows a transaction has inserted   *)
(* but not committed are local to EndIngest.                               *)
(***************************************************************************)
EXTENDS Integers, Sequences, FiniteSets, TLC

\* ---------------------------------------------------------------- bounds
\* Number of requests the service receives in one run.
MaxRequests == 3

\* ------------------------------------------------------------- constants
NULL == "<null>"       \* Python None, JSON null, SQL NULL
Absent == "<absent>"   \* a key the JSON object does not hold

EMAIL == "email"
MMS == "mms"
SMS == "sms"

\* The msg_type values the URL patterns let through.
UrlTypes == {EMAIL, MMS, SMS}

\* Message.MESSAGE_TYPES: the choices declared for msg_type.
MESSAGE_TYPES == {EMAIL, MMS, SMS}

\* Request handlers running at the same time.
Workers == {"w1", "w2"}

\* Participant identifiers used as inputs, and Python's str order on them.
Addresses == {"+1201", "+1804"}

StrRank(s) == CASE s = "+1201" -> 1 [] s = "+1804" -> 2

StrLess(x, y) == StrRank(x) < StrRank(y)

\* Timestamp texts a request may carry.
TimestampTexts == {"2024-11-01T14:00:00Z", "2024-11-01T09:00:00Z", "2024-11-01", "yesterday"}

\* DateTimeField.to_python on a text: the hour of 2024-11-01 it denotes, or
\* -1 when the text is no date-time (ValidationError).  A date alone is
\* midnight of that day.
to_python(text) ==
    CASE text = "2024-11-01T14:00:00Z" -> 14
      [] text = "2024-11-01T09:00:00Z" -> 9
      [] text = "2024-11-01" -> 0
      [] OTHER -> -1

\* Outcomes of the call to the provider: a status code, or a transport failure.
RequestException == 0

ProviderOutcomes == {200, 201, 429, 500, 503, RequestException}

\* ---------------------------------------------------------------- inputs
\* The JSON object of a request body.
BaseData ==
    [from |-> "+1201", to |-> "+1804", type |-> Absent, body |-> "Hello test",
     attachments |-> NULL, timestamp |-> "2024-11-01T14:00:00Z",
     messaging_provider_id |-> "msg-123", xillio_id |-> "email-999"]

\* Bodies that differ from BaseData in the addresses: the reversed pair, a
\* pair of equal addresses, a missing from, a missing to.
AddressPairs ==
    {<<"+1201", "+1804">>, <<"+1804", "+1201">>, <<"+1201", "+1201">>,
     <<NULL, "+1804">>, <<"+1201", NULL>>}

AddressData == {[BaseData EXCEPT !.from = p[1], !.to = p[2]] : p \in AddressPairs}

\* Bodies that differ from BaseData in the type key.
TypeData == {[BaseData EXCEPT !.type = ty] : ty \in {SMS, "fax"}}

\* Bodies that differ from BaseData in body and attachments (attachments is
\* a JSON value, written here as its JSON text; NULL is JSON null).
ContentData ==
    {[BaseData EXCEPT !.body = "", !.attachments = "[]"],
     [BaseData EXCEPT !.attachments = "[\"u1\", \"u2\"]"],
     [BaseData EXCEPT !.body = NULL]}

\* Bodies that differ from BaseData in the timestamp.
TimestampData == {[BaseData EXCEPT !.timestamp = ts] : ts \in TimestampTexts \cup {NULL}}

\* A request: the view the URL routes to, the msg_type of the URL, whether
\* the body is JSON at all, and the JSON object.
Request(v, ut, j, d) == [view |-> v, msg_type |-> ut, json |-> j, post_data |-> d]

OutgoingRequests ==
    {Request("outgoing", SMS, TRUE, d) :
        d \in AddressData \cup ContentData \cup TimestampData \cup {[BaseData EXCEPT !.type = "fax"]}}
    \cup {Request("outgoing", SMS, FALSE, BaseData)}

WebhookRequests ==
    {Request("webhook", ut, TRUE, BaseData) : ut \in UrlTypes}
    \cup {Request("webhook", EMAIL, TRUE, d) : d \in TypeData}
    \cup {Request("webhook", SMS, TRUE, d) :
            d \in {[BaseData EXCEPT !.messaging_provider_id = NULL],
                   [BaseData EXCEPT !.from = "+1804", !.to = "+1201"],
                   [BaseData EXCEPT !.from = NULL],
                   [BaseData EXCEPT !.body = NULL],
                   [BaseData EXCEPT !.timestamp = "yesterday"]}}

Requests == OutgoingRequests \cup WebhookRequests

NoRequest == [view |-> "none", msg_type |-> NULL, json |-> FALSE, post_data |-> BaseData]

NoResponse == [status |-> 0, error |-> NULL, message_id |-> 0]

\* ----------------------------------------------------------------- state
VARIABLES
    conversations,    \* committed Conversation rows
    messages,         \* committed Message rows
    conv_seq,         \* last id the Conversation table issued
    msg_seq,          \* last id the Message table issued
    started,          \* requests received so far
    pc,               \* per worker: "idle", "tx", "provider", "done"
    request,          \* per worker: the request it handles
    conversation,     \* per worker: id of the row get_or_create resolved, 0 before
    created,          \* per worker: get_or_create inserted the Conversation
    message,          \* per worker: id of the Message row its INSERT took, 0 if none
    raised,           \* per worker: the exception that ended the ingestion, or "none"
    called,           \* per worker: the provider call has started
    provider_status,  \* per worker: what the provider call returned, NULL before
    response,         \* per worker: the HTTP response
    req_cid,          \* per worker: the cid of a detail request, 0 otherwise
    fetched,          \* per worker: the Conversation rows its first query returned
    result,           \* per worker: the JSON array a read answers with
    seen              \* per worker: the size of the store at its first and at its last query

vars ==
    <<conversations, messages, conv_seq, msg_seq, started, pc, request, conversation,
      created, message, raised, called, provider_status, response, req_cid, fetched, result, seen>>

reader == <<req_cid, fetched, result, seen>>

\* ------------------------------------------------------------- models.py
\* The pair as given, not sorted.
unsorted2(x, y) == <<x, y>>

\* sorted([from_address, to_address]) on two strings.
sorted2(x, y) == IF StrLess(y, x) THEN <<y, x>> ELSE <<x, y>>

\* A lookup on the first participant alone.
get_by_first(rows, a, b) == {c \in rows : c.participant_a = a}

\* cls.objects.get(participant_a=a, participant_b=b): the rows that match.
get(rows, a, b) == {c \in rows : c.participant_a = a /\ c.participant_b = b}

\* The row cls.objects.create inserts.
ConversationRow(id, a, b) == [id |-> id, participant_a |-> a, participant_b |-> b]

\* -------------------------------------------------------------- views.py
\* A provider id taken from the body whatever the view.
ProviderIdAnyView(req) ==
    IF req.msg_type \in {MMS, SMS}
    THEN req.post_data.messaging_provider_id
    ELSE req.post_data.xillio_id

\* BaseMessageView._get_request_data, with the webhook's provider id.
ProviderIdOf(req) ==
    IF req.view = "webhook"
    THEN IF req.msg_type \in {MMS, SMS}
         THEN req.post_data.messaging_provider_id
         ELSE req.post_data.xillio_id
    ELSE NULL

get_request_data(req) ==
    [msg_type |-> IF req.post_data.type = Absent THEN req.msg_type ELSE req.post_data.type,
     from_address |-> req.post_data.from,
     to_address |-> req.post_data.to,
     body |-> req.post_data.body,
     attachments |-> req.post_data.attachments,
     timestamp |-> req.post_data.timestamp,
     messaging_provider_id |-> ProviderIdOf(req)]

\* Message.objects.create(conversation=..., **message_obj_vals): what the
\* INSERT does.  The timestamp is converted before the statement is sent; a
\* NULL in a column declared without null=True is refused by the table.
CreateOutcome(vals) ==
    IF vals.timestamp # NULL /\ to_python(vals.timestamp) = -1 THEN "ValidationError"
    ELSE IF NULL \in {vals.msg_type, vals.from_address, vals.to_address, vals.body, vals.timestamp}
    THEN "IntegrityError"
    ELSE "ok"

MessageRow(id, cid, vals) ==
    [id |-> id, conversation_id |-> cid, msg_type |-> vals.msg_type,
     from_address |-> vals.from_address, to_address |-> vals.to_address,
     body |-> vals.body, attachments |-> vals.attachments,
     timestamp |-> to_python(vals.timestamp),
     messaging_provider_id |-> vals.messaging_provider_id]

\* An atomic block that commits whenever no exception leaves it.
CommitsWhenCaught(outcome) == outcome \in {"ok", "IntegrityError"}

\* Exit of `with transaction.atomic()`: the block commits when no exception
\* leaves it and no statement inside it failed.  An IntegrityError caught
\* inside the block has marked the transaction for rollback.
Commits(outcome) == outcome = "ok"

\* Rows that are not written by the time the block has exited.
InsertDeferred(rows, new) == rows

\* INSERT of a row into a table at commit.
Insert(rows, new) == rows \cup new

\* A mapping that answers 500 for every status it does not know.
ProviderResponseNoPassthrough(outcome, mid) ==
    CASE outcome = RequestException ->
            [status |-> 502, error |-> "Failed to reach provider", message_id |-> 0]
      [] outcome = 429 ->
            [status |-> 429, error |-> "Rate limited by provider. Please retry later.", message_id |-> 0]
      [] outcome = 200 ->
            [status |-> 201, error |-> NULL, message_id |-> mid]
      [] OTHER ->
            [status |-> 500, error |-> "Unknown error ocurred.", message_id |-> 0]

\* The mapping of the provider's outcome to the response.
ProviderResponse(outcome, mid) ==
    CASE outcome = RequestException ->
            [status |-> 502, error |-> "Failed to reach provider", message_id |-> 0]
      [] outcome = 429 ->
            [status |-> 429, error |-> "Rate limited by provider. Please retry later.", message_id |-> 0]
      [] outcome = 500 ->
            [status |-> 500, error |-> "Provider service unavailable.", message_id |-> 0]
      [] outcome = 200 ->
            [status |-> 201, error |-> NULL, message_id |-> mid]
      [] OTHER ->
            [status |-> outcome, error |-> "Unknown error ocurred.", message_id |-> 0]

\* A provider block that deletes the message when the provider fails.
RollbackOnProviderFailure(rows, mid, outcome) ==
    IF outcome = 200 THEN rows ELSE {m \in rows : m.id # mid}

\* The provider block of OutgoingMessageView.post writes nothing.
StoreAfterProvider(rows, mid, outcome) == rows

InvalidMessage == [status |-> 400, error |-> "Invalid message", message_id |-> 0]

\* An exception no handler catches: the framework answers 500.
ServerError == [status |-> 500, error |-> "Server Error (500)", message_id |-> 0]

Created(mid) == [status |-> 201, error |-> NULL, message_id |-> mid]

\* ------------------------------------------------------- the read views
\* The conversation ids a detail request may ask for.
DetailIds == {1, 2, 9999}

ListRequest == Request("list", NULL, TRUE, BaseData)

DetailRequest == Request("detail", NULL, TRUE, BaseData)

\* datetime.isoformat() of a stored timestamp.
isoformat(t) ==
    CASE t = 14 -> "2024-11-01T14:00:00"
      [] t = 9 -> "2024-11-01T09:00:00"
      [] t = 0 -> "2024-11-01T00:00:00"

\* Message.serialize.
serialize(m) ==
    [id |-> m.id, msg_type |-> m.msg_type, from_address |-> m.from_address,
     to_address |-> m.to_address, body |-> m.body, attachments |-> m.attachments,
     timestamp |-> isoformat(m.timestamp)]

\* Rows in the order they were inserted.
ByInsertion(x, y) == x.id < y.id

\* order_by('timestamp'): rows of equal timestamp come in the order the
\* table holds them, which is the order of insertion.
ByTimestamp(x, y) == x.timestamp < y.timestamp \/ (x.timestamp = y.timestamp /\ x.id < y.id)

RECURSIVE order_by_id(_)
order_by_id(rows) ==
    IF rows = {} THEN <<>>
    ELSE LET first == CHOOSE x \in rows : \A y \in rows \ {x} : ByInsertion(x, y)
         IN <<first>> \o order_by_id(rows \ {first})

\* The rows as the table holds them, with no ordering asked for.
unordered(rows) == order_by_id(rows)

RECURSIVE order_by_timestamp(_)
order_by_timestamp(rows) ==
    IF rows = {} THEN <<>>
    ELSE LET first == CHOOSE x \in rows : \A y \in rows \ {x} : ByTimestamp(x, y)
         IN <<first>> \o order_by_timestamp(rows \ {first})

\* self.messages: the Message rows whose foreign key is the conversation.
related(c, msgs) == {m \in msgs : m.conversation_id = c.id}

\* Conversation.serialize_messages.
serialize_messages(c, msgs) ==
    LET ordered == order_by_timestamp(related(c, msgs))
    IN [i \in 1..Len(ordered) |-> serialize(ordered[i])]

\* Conversation.serialize.
serialize_conversation(c, msgs) ==
    [participant_a |-> c.participant_a, participant_b |-> c.participant_b,
     messages |-> serialize_messages(c, msgs)]

\* Conversation.objects.get(id=cid) with an id one too high.
get_by_next_id(rows, id) == {c \in rows : c.id = id + 1}

\* Conversation.objects.get(id=cid): the rows that match.
get_by_id(rows, id) == {c \in rows : c.id = id}

\* A read that consumes the rows it has returned.
ConsumedByRead(rows) == {}

\* The rows a read view writes: none.
StoreAfterRead(rows) == rows

\* The size of the store; every commit adds rows.
Writes == Cardinality(conversations) + Cardinality(messages)

NotFound == [status |-> 404, error |-> "Conversation not found", message_id |-> 0]

Ok == [status |-> 200, error |-> NULL, message_id |-> 0]

\* ------------------------------------------------------------------ Init
Init ==
    /\ conversations = {}
    /\ messages = {}
    /\ conv_seq = 0
    /\ msg_seq = 0
    /\ started = 0
    /\ pc = [w \in Workers |-> "idle"]
    /\ request = [w \in Workers |-> NoRequest]
    /\ conversation = [w \in Workers |-> 0]
    /\ created = [w \in Workers |-> FALSE]
    /\ message = [w \in Workers |-> 0]
    /\ raised = [w \in Workers |-> "none"]
    /\ called = [w \in Workers |-> FALSE]
    /\ provider_status = [w \in Workers |-> NULL]
    /\ response = [w \in Workers |-> NoResponse]
    /\ req_cid = [w \in Workers |-> 0]
    /\ fetched = [w \in Workers |-> {}]
    /\ result = [w \in Workers |-> <<>>]
    /\ seen = [w \in Workers |-> <<0, 0>>]

\* --------------------------------------------------------------- actions
\* The handler fails before it has written anything.
Fail(w, req, exc) ==
    /\ pc' = [pc EXCEPT ![w] = "done"]
    /\ request' = [request EXCEPT ![w] = req]
    /\ raised' = [raised EXCEPT ![w] = exc]
    /\ response' = [response EXCEPT ![w] = ServerError]
    /\ UNCHANGED <<conversation, created, message, called, provider_status>>

\* post(), up to the SELECT of get_or_create: parse the body, enter the
\* atomic block, sort the addresses, look the Conversation up.
BeginIngest(w) ==
    /\ pc[w] = "idle"
    /\ started < MaxRequests
    /\ started' = started + 1
    /\ UNCHANGED <<conversations, messages, conv_seq, msg_seq, reader>>
    /\ \E req \in Requests :
         IF ~req.json THEN Fail(w, req, "JSONDecodeError")
         ELSE LET vals == get_request_data(req) IN
              IF vals.from_address = NULL \/ vals.to_address = NULL
              THEN Fail(w, req, "TypeError")
              ELSE LET participants == sorted2(vals.from_address, vals.to_address)
                       found == get(conversations, participants[1], participants[2])
                   IN IF Cardinality(found) > 1
                      THEN Fail(w, req, "MultipleObjectsReturned")
                      ELSE /\ pc' = [pc EXCEPT ![w] = "tx"]
                           /\ request' = [request EXCEPT ![w] = req]
                           /\ conversation' =
                                [conversation EXCEPT ![w] =
                                    IF found = {} THEN 0 ELSE (CHOOSE c \in found : TRUE).id]
                           /\ UNCHANGED <<created, message, raised, called, provider_status, response>>

\* post(), from the DoesNotExist branch of get_or_create to the exit of the
\* atomic block: insert the Conversation when the SELECT found none, insert
\* the Message, then commit or roll back.
EndIngest(w) ==
    /\ pc[w] = "tx"
    /\ LET req == request[w]
           vals == get_request_data(req)
           participants == sorted2(vals.from_address, vals.to_address)
           create == conversation[w] = 0
           cid == IF create THEN conv_seq + 1 ELSE conversation[w]
           outcome == CreateOutcome(vals)
           sent == outcome # "ValidationError"
           mid == IF sent THEN msg_seq + 1 ELSE 0
           newConvs == IF create THEN {ConversationRow(cid, participants[1], participants[2])} ELSE {}
           newMsgs == IF outcome = "ok" THEN {MessageRow(mid, cid, vals)} ELSE {}
       IN /\ conv_seq' = IF create THEN cid ELSE conv_seq
          /\ msg_seq' = IF sent THEN mid ELSE msg_seq
          /\ conversation' = [conversation EXCEPT ![w] = cid]
          /\ created' = [created EXCEPT ![w] = create]
          /\ message' = [message EXCEPT ![w] = mid]
          /\ IF Commits(outcome)
             THEN /\ conversations' = Insert(conversations, newConvs)
                  /\ messages' = Insert(messages, newMsgs)
             ELSE UNCHANGED <<conversations, messages>>
          /\ raised' = [raised EXCEPT ![w] = IF outcome = "ok" THEN "none" ELSE outcome]
          /\ CASE outcome = "IntegrityError" ->
                    /\ pc' = [pc EXCEPT ![w] = "done"]
                    /\ response' = [response EXCEPT ![w] = InvalidMessage]
                    /\ UNCHANGED called
               [] outcome = "ValidationError" ->
                    /\ pc' = [pc EXCEPT ![w] = "done"]
                    /\ response' = [response EXCEPT ![w] = ServerError]
                    /\ UNCHANGED called
               [] outcome = "ok" /\ req.view = "webhook" ->
                    /\ pc' = [pc EXCEPT ![w] = "done"]
                    /\ response' = [response EXCEPT ![w] = Created(mid)]
                    /\ UNCHANGED called
               [] outcome = "ok" /\ req.view = "outgoing" ->
                    /\ pc' = [pc EXCEPT ![w] = "provider"]
                    /\ called' = [called EXCEPT ![w] = TRUE]
                    /\ UNCHANGED response
    /\ UNCHANGED <<started, request, provider_status, reader>>

\* OutgoingMessageView.post, the provider block: the call returns or fails,
\* and the outcome is mapped to the response.
ProviderReturn(w) ==
    /\ pc[w] = "provider"
    /\ \E outcome \in ProviderOutcomes :
         /\ provider_status' = [provider_status EXCEPT ![w] = outcome]
         /\ raised' = [raised EXCEPT ![w] = IF outcome = RequestException THEN "RequestException" ELSE "none"]
         /\ response' = [response EXCEPT ![w] = ProviderResponse(outcome, message[w])]
         /\ messages' = StoreAfterProvider(messages, message[w], outcome)
    /\ pc' = [pc EXCEPT ![w] = "done"]
    /\ UNCHANGED <<conversations, conv_seq, msg_seq, started, request, conversation, created, message, called, reader>>

\* The response has been delivered; the worker takes the next request.
Finish(w) ==
    /\ pc[w] = "done"
    /\ pc' = [pc EXCEPT ![w] = "idle"]
    /\ request' = [request EXCEPT ![w] = NoRequest]
    /\ conversation' = [conversation EXCEPT ![w] = 0]
    /\ created' = [created EXCEPT ![w] = FALSE]
    /\ message' = [message EXCEPT ![w] = 0]
    /\ raised' = [raised EXCEPT ![w] = "none"]
    /\ called' = [called EXCEPT ![w] = FALSE]
    /\ provider_status' = [provider_status EXCEPT ![w] = NULL]
    /\ response' = [response EXCEPT ![w] = NoResponse]
    /\ req_cid' = [req_cid EXCEPT ![w] = 0]
    /\ fetched' = [fetched EXCEPT ![w] = {}]
    /\ result' = [result EXCEPT ![w] = <<>>]
    /\ seen' = [seen EXCEPT ![w] = <<0, 0>>]
    /\ UNCHANGED <<conversations, messages, conv_seq, msg_seq, started>>

\* ConversationListView.get, the query Conversation.objects.all().
ListGet(w) ==
    /\ pc[w] = "idle"
    /\ started < MaxRequests
    /\ started' = started + 1
    /\ request' = [request EXCEPT ![w] = ListRequest]
    /\ fetched' = [fetched EXCEPT ![w] = conversations]
    /\ seen' = [seen EXCEPT ![w] = <<Writes, Writes>>]
    /\ pc' = [pc EXCEPT ![w] = "read"]
    /\ UNCHANGED <<conversations, messages, conv_seq, msg_seq, conversation, created, message,
                   raised, called, provider_status, response, req_cid, result>>

\* ConversationDetailView.get, the query Conversation.objects.get(id=cid):
\* DoesNotExist is answered with Http404.
DetailGet(w) ==
    /\ pc[w] = "idle"
    /\ started < MaxRequests
    /\ started' = started + 1
    /\ request' = [request EXCEPT ![w] = DetailRequest]
    /\ \E id \in DetailIds :
         LET found == get_by_id(conversations, id)
         IN /\ req_cid' = [req_cid EXCEPT ![w] = id]
            /\ fetched' = [fetched EXCEPT ![w] = found]
            /\ seen' = [seen EXCEPT ![w] = <<Writes, Writes>>]
            /\ IF found = {}
               THEN /\ pc' = [pc EXCEPT ![w] = "done"]
                    /\ raised' = [raised EXCEPT ![w] = "Http404"]
                    /\ response' = [response EXCEPT ![w] = NotFound]
               ELSE /\ pc' = [pc EXCEPT ![w] = "read"]
                    /\ UNCHANGED <<raised, response>>
    /\ UNCHANGED <<conversations, messages, conv_seq, msg_seq, conversation, created, message,
                   called, provider_status, result>>

\* The queries of serialize_messages, for the conversation of a detail
\* request or for each conversation of a list request, and the response.
Serialize(w) ==
    /\ pc[w] = "read"
    /\ result' =
         [result EXCEPT ![w] =
            IF request[w].view = "detail"
            THEN serialize_messages(CHOOSE c \in fetched[w] : TRUE, messages)
            ELSE LET ordered == order_by_id(fetched[w])
                 IN [i \in 1..Len(ordered) |-> serialize_conversation(ordered[i], messages)]]
    /\ response' = [response EXCEPT ![w] = Ok]
    /\ seen' = [seen EXCEPT ![w] = <<seen[w][1], Writes>>]
    /\ pc' = [pc EXCEPT ![w] = "done"]
    /\ conversations' = StoreAfterRead(conversations)
    /\ messages' = StoreAfterRead(messages)
    /\ UNCHANGED <<conv_seq, msg_seq, started, request, conversation, created, message,
                   raised, called, provider_status, req_cid, fetched>>

Next ==
    \E w \in Workers :
        \/ BeginIngest(w)
        \/ EndIngest(w)
        \/ ProviderReturn(w)
        \/ ListGet(w)
        \/ DetailGet(w)
        \/ Serialize(w)
        \/ Finish(w)

Spec == Init /\ [][Next]_vars

\* Requests handled one after the other: a request is received only when no
\* other is being handled.
SeqBeginIngest(w) ==
    /\ \A v \in Workers \ {w} : pc[v] = "idle"
    /\ BeginIngest(w)

\* A read received when no other request is being handled.
SeqRead(w) ==
    /\ \A v \in Workers \ {w} : pc[v] = "idle"
    /\ (ListGet(w) \/ DetailGet(w))

SeqNext ==
    \E w \in Workers :
        \/ SeqBeginIngest(w)
        \/ EndIngest(w)
        \/ ProviderReturn(w)
        \/ SeqRead(w)
        \/ Serialize(w)
        \/ Finish(w)

SeqSpec == Init /\ [][SeqNext]_vars

\* ---------------------------------------------------------------- claims
Pair(c) == {c.participant_a, c.participant_b}

MsgPair(m) == {m.from_address, m.to_address}

ReqPair(req) == {req.post_data.from, req.post_data.to}

\* The type a request asks for: the body's type key, else the URL's.
ReqType(req) == IF req.post_data.type = Absent THEN req.msg_type ELSE req.post_data.type

\* The stored row carries the request's fields.
Carries(m, req) ==
    /\ m.from_address = req.post_data.from
    /\ m.to_address = req.post_data.to
    /\ m.msg_type = ReqType(req)
    /\ m.body = req.post_data.body
    /\ m.attachments = req.post_data.attachments
    /\ m.timestamp = to_python(req.post_data.timestamp)

\* An exception raised inside the atomic block ended the ingestion.
IngestionFailed(w) ==
    raised[w] \in {"TypeError", "MultipleObjectsReturned", "IntegrityError", "ValidationError"}

\* C1: in every reachable state, also under concurrent ingestion, there is
\* at most one Conversation row per unordered pair of two addresses, and all
\* the messages between the two addresses are attached to one Conversation.
C1_OneConversationPerPair ==
    /\ \A c1, c2 \in conversations :
          Pair(c1) = Pair(c2) /\ Cardinality(Pair(c1)) = 2 => c1 = c2
    /\ \A m1, m2 \in messages :
          MsgPair(m1) = MsgPair(m2) /\ Cardinality(MsgPair(m1)) = 2
            => m1.conversation_id = m2.conversation_id

\* C2: when calls do not overlap, resolving (x, y) and (y, x) with x # y
\* gives the same Conversation id, and however many calls are made the pair
\* has exactly one Conversation.
C2_ResolveSymmetric ==
    /\ \A m1, m2 \in messages :
          MsgPair(m1) = MsgPair(m2) /\ m1.from_address # m1.to_address
            => m1.conversation_id = m2.conversation_id
    /\ \A m \in messages :
          m.from_address # m.to_address
            => Cardinality({c \in conversations : Pair(c) = MsgPair(m)}) = 1
    /\ \A w \in Workers : \A c \in conversations :
          /\ pc[w] # "idle"
          /\ conversation[w] # 0
          /\ Cardinality(ReqPair(request[w])) = 2
          /\ Pair(c) = ReqPair(request[w])
          => conversation[w] = c.id

C2_Witness ==
    \E m1, m2 \in messages :
        /\ m1.from_address # m1.to_address
        /\ m1.from_address = m2.to_address
        /\ m1.to_address = m2.from_address
        /\ m1.conversation_id = m2.conversation_id
        /\ Cardinality({c \in conversations : Pair(c) = MsgPair(m1)}) = 1

\* C3: when an ingestion created the Conversation and the Message insertion
\* then failed, the store holds neither that Conversation nor a Message of
\* that request once the request has returned.
C3_AllOrNothing ==
    \A w \in Workers :
        pc[w] = "done" /\ created[w] /\ raised[w] \in {"IntegrityError", "ValidationError"}
          => /\ \A c \in conversations : c.id # conversation[w]
             /\ \A m \in messages : m.id # message[w] /\ m.conversation_id # conversation[w]

C3_Witness ==
    \E w \in Workers :
        /\ pc[w] = "done"
        /\ created[w]
        /\ raised[w] = "IntegrityError"
        /\ response[w] = InvalidMessage
        /\ conversation[w] # 0

\* The step in which worker w's ingestion succeeds.
IngestSucceeds(w) == pc[w] = "tx" /\ pc'[w] # "tx" /\ raised'[w] = "none"

\* C4: a successful ingestion adds exactly one Message row, adds at most one
\* Conversation row and none when the two addresses already have one, files
\* the Message under that Conversation, stores the request's fields
\* unchanged, and touches no other row.
C4_SuccessPostcondition ==
    [][\A w \in Workers :
         IngestSucceeds(w) =>
           /\ conversations \subseteq conversations'
           /\ messages \subseteq messages'
           /\ Cardinality(messages' \ messages) = 1
           /\ Cardinality(conversations' \ conversations) <= 1
           /\ (\E c \in conversations :
                  Pair(c) = ReqPair(request[w]) /\ Cardinality(Pair(c)) = 2)
                 => conversations' = conversations
           /\ \A m \in messages' \ messages :
                 /\ m.id = message'[w]
                 /\ m.conversation_id = conversation'[w]
                 /\ \E c \in conversations' : c.id = m.conversation_id
                 /\ Carries(m, request[w])]_vars

\* C5: whenever the provider call of a request has started, the request's
\* Message and its Conversation are committed rows of the store.
C5_StoreThenNotify ==
    \A w \in Workers :
        called[w] =>
          /\ \E m \in messages :
                m.id = message[w] /\ m.conversation_id = conversation[w] /\ Carries(m, request[w])
          /\ \E c \in conversations : c.id = conversation[w]

C5_Witness == \E w \in Workers : pc[w] = "provider" /\ called[w] /\ message[w] # 0

\* C6: after an outbound send whose provider call did not succeed has
\* returned, the Message and the Conversation the request committed are
\* still in the store, with the fields the request gave them.
C6_ProviderFailureKeepsMessage ==
    \A w \in Workers :
        pc[w] = "done" /\ called[w] /\ provider_status[w] # 200
          => /\ \E m \in messages :
                   m.id = message[w] /\ m.conversation_id = conversation[w] /\ Carries(m, request[w])
             /\ \E c \in conversations :
                   c.id = conversation[w] /\ Pair(c) = ReqPair(request[w])

C6_Witness ==
    \E w \in Workers :
        /\ pc[w] = "done"
        /\ called[w]
        /\ provider_status[w] \in {429, 500, 503, RequestException}
        /\ response[w].status # 201

\* C7: the response of an outbound send whose ingestion succeeded is 201
\* with the message id for provider status 200, 429 with the rate-limit text
\* for 429, 500 with the unavailable text for 500, 502 for a transport
\* failure, and the provider's own status with an error for any other status.
C7_ProviderMapping ==
    \A w \in Workers :
        pc[w] = "done" /\ called[w] =>
          LET ps == provider_status[w]
              r == response[w]
          IN /\ ps = 200 => r.status = 201 /\ r.message_id = message[w] /\ r.error = NULL
             /\ ps = 429 => r.status = 429 /\ r.error = "Rate limited by provider. Please retry later."
             /\ ps = 500 => r.status = 500 /\ r.error = "Provider service unavailable."
             /\ ps = RequestException => r.status = 502 /\ r.error # NULL
             /\ ps \notin {200, 429, 500, RequestException} => r.status = ps /\ r.error # NULL

C7_Witness ==
    \E w \in Workers :
        pc[w] = "done" /\ called[w] /\ provider_status[w] = 503 /\ response[w].status = 503

\* C8: an outbound-send response with status 201 carries the id of the
\* Message the request persisted and no error.
C8_Only201OnSuccess ==
    \A w \in Workers :
        pc[w] = "done" /\ request[w].view = "outgoing" /\ response[w].status = 201
          => /\ response[w].error = NULL
             /\ response[w].message_id = message[w]
             /\ \E m \in messages : m.id = response[w].message_id

\* C9: an outbound send whose ingestion transaction failed answers
\* InvalidMessage (400, 'Invalid message') and never calls the provider.
C9_FailedIngestionIs400 ==
    \A w \in Workers :
        pc[w] = "done" /\ request[w].view = "outgoing" /\ IngestionFailed(w)
          => response[w] = InvalidMessage /\ ~called[w]

\* A request that violates the ingestion preconditions.
ViolatesPreconditions(req) ==
    \/ NULL \in {req.post_data.from, req.post_data.to, req.post_data.body, req.post_data.timestamp}
    \/ to_python(req.post_data.timestamp) = -1
    \/ ReqType(req) \notin MESSAGE_TYPES

\* C10: a request that violates the ingestion preconditions never reaches
\* the provider, ends with InvalidMessage (400) and leaves no row of its own
\* in the store.
C10_InvalidRequestIs400 ==
    \A w \in Workers :
        /\ pc[w] # "idle"
        /\ request[w].view \in {"outgoing", "webhook"}
        /\ request[w].json
        /\ ViolatesPreconditions(request[w])
          => /\ pc[w] # "provider"
             /\ pc[w] = "done" =>
                   /\ response[w] = InvalidMessage
                   /\ \A m \in messages : m.id # message[w]
                   /\ \A c \in conversations : created[w] => c.id # conversation[w]

\* C11: a Message stored by a webhook with type sms or mms has its provider
\* id from the request's messaging_provider_id, and one stored with type
\* email has it from the request's xillio_id.
C11_DispatchByStoredType ==
    \A w \in Workers :
        pc[w] = "done" /\ request[w].view = "webhook" /\ response[w].status = 201
          => \A m \in messages :
                m.id = message[w] =>
                  /\ m.msg_type \in {SMS, MMS}
                        => m.messaging_provider_id = request[w].post_data.messaging_provider_id
                  /\ m.msg_type = EMAIL
                        => m.messaging_provider_id = request[w].post_data.xillio_id

\* C12: the Message of an outbound send is stored with a null provider id
\* whatever the body held, the provider id of a stored Message never
\* changes, and a webhook never calls the provider.
C12_OutboundProviderIdNull ==
    [][/\ \A w \in Workers :
            request'[w].view = "outgoing"
              => \A m \in messages' : m.id = message'[w] => m.messaging_provider_id = NULL
       /\ \A m \in messages : \A n \in messages' :
            n.id = m.id => n.messaging_provider_id = m.messaging_provider_id
       /\ \A w \in Workers :
            request'[w].view = "webhook" => ~called'[w] /\ pc'[w] # "provider"]_vars

C12_Witness ==
    \E w \in Workers :
        /\ pc[w] = "done"
        /\ request[w].view = "outgoing"
        /\ request[w].post_data.messaging_provider_id # NULL
        /\ \E m \in messages : m.id = message[w] /\ m.messaging_provider_id = NULL

\* The stored timestamp of the message with the given id.
TimestampOf(id) == (CHOOSE m \in messages : m.id = id).timestamp

\* The array holds exactly the messages of conversation c, each once, in
\* ascending order of timestamp.
ExactOrdered(views, c) ==
    /\ {views[i].id : i \in 1..Len(views)} = {m.id : m \in {n \in messages : n.conversation_id = c.id}}
    /\ \A i, j \in 1..Len(views) : i # j => views[i].id # views[j].id
    /\ \A i, j \in 1..Len(views) : i < j => TimestampOf(views[i].id) <= TimestampOf(views[j].id)
    /\ \A i \in 1..Len(views) : \E m \in messages : views[i] = serialize(m)

\* The step in which worker w answers a read.
ReadAnswers(w) == pc[w] = "read" /\ pc'[w] = "done"

\* C13: the array a detail request answers with, and the messages array of
\* every conversation a list request answers with, hold exactly the
\* conversation's Messages, each once, ascending by timestamp.
C13_ReadsOrdered ==
    [][\A w \in Workers :
         ReadAnswers(w) =>
           IF request[w].view = "detail"
           THEN \A c \in fetched[w] : ExactOrdered(result'[w], c)
           ELSE /\ Len(result'[w]) = Cardinality(fetched[w])
                /\ \E f \in [1..Len(result'[w]) -> fetched[w]] :
                     /\ \A i, j \in 1..Len(result'[w]) : i # j => f[i] # f[j]
                     /\ \A i \in 1..Len(result'[w]) :
                          /\ result'[w][i].participant_a = f[i].participant_a
                          /\ result'[w][i].participant_b = f[i].participant_b
                          /\ ExactOrdered(result'[w][i].messages, f[i])]_vars

C13_Witness ==
    \E w \in Workers :
        /\ pc[w] = "done"
        /\ request[w].view = "detail"
        /\ response[w].status = 200
        /\ Len(result[w]) >= 2
        /\ result[w][1].id > result[w][2].id
        /\ result[w][1].timestamp # result[w][2].timestamp

\* The step in which worker w receives a detail request.
DetailReceived(w) == pc[w] = "idle" /\ pc'[w] # "idle" /\ request'[w].view = "detail"

\* C14: a detail request is answered NotFound (404) exactly when the store
\* holds no Conversation with the id, is answered with the message array
\* when it holds one, and leaves the store as it was.
C14_NotFoundIffMissing ==
    [][\A w \in Workers :
         /\ DetailReceived(w) =>
              /\ (pc'[w] = "done" /\ response'[w] = NotFound)
                    <=> ~(\E c \in conversations : c.id = req_cid'[w])
              /\ pc'[w] = "read" <=> (\E c \in conversations : c.id = req_cid'[w])
              /\ conversations' = conversations /\ messages' = messages
         /\ ReadAnswers(w) /\ request[w].view = "detail" =>
              /\ response'[w].status = 200
              /\ {result'[w][i].id : i \in 1..Len(result'[w])}
                    = {m.id : m \in {n \in messages : n.conversation_id = req_cid[w]}}
              /\ conversations' = conversations /\ messages' = messages]_vars

C14_Witness ==
    \E w1, w2 \in Workers :
        /\ pc[w1] = "done" /\ request[w1].view = "detail" /\ response[w1] = NotFound
        /\ pc[w2] = "done" /\ request[w2].view = "detail" /\ response[w2].status = 200
        /\ Len(result[w2]) >= 1

\* The step is one of worker w handling a read.
ReadStep(w) ==
    \/ pc[w] = "idle" /\ pc'[w] # "idle" /\ request'[w].view \in {"list", "detail"}
    \/ ReadAnswers(w)

C16_StoredTypesRecognized == \A m \in messages : m.msg_type \in MESSAGE_TYPES

\* C17: every stored Conversation has participant_a less than or equal to
\* participant_b, whichever address sent the first message.
C17_CanonicalOrder ==
    \A c \in conversations : StrRank(c.participant_a) <= StrRank(c.participant_b)

C17_Witness ==
    \E w \in Workers : \E c \in conversations :
        /\ pc[w] \in {"provider", "done"}
        /\ created[w]
        /\ c.id = conversation[w]
        /\ request[w].post_data.from = "+1804"
        /\ request[w].post_data.to = "+1201"
        /\ c.participant_a = "+1201"
        /\ c.participant_b = "+1804"

\* C18: an ingestion with two non-empty addresses is never ended by the
\* conversation lookup failing.
C18_ResolveNeverFails ==
    \A w \in Workers :
        /\ pc[w] = "done"
        /\ request[w].view \in {"outgoing", "webhook"}
        /\ request[w].json
        /\ request[w].post_data.from # NULL
        /\ request[w].post_data.to # NULL
        => raised[w] # "MultipleObjectsReturned"

\* C19: no step changes or removes a committed Conversation or Message.
C19_RowsImmutable ==
    [][/\ \A c \in conversations : c \in conversations'
       /\ \A m \in messages : m \in messages'
       /\ \A c \in conversations' \ conversations : \A d \in conversations : d.id # c.id
       /\ \A m \in messages' \ messages : \A n \in messages : n.id # m.id]_vars

C19_Witness ==
    /\ Cardinality(messages) >= 2
    /\ \E w \in Workers : pc[w] = "done" /\ called[w] /\ provider_status[w] # 200
    /\ \E w \in Workers : pc[w] = "done" /\ request[w].view = "list"

\* C20: every stored Message references a stored Conversation whose two
\* participants are the Message's two addresses.
C20_FiledUnderOwnPair ==
    \A m \in messages :
        \E c \in conversations : c.id = m.conversation_id /\ Pair(c) = MsgPair(m)

C20_Witness ==
    \E m1, m2 \in messages :
        /\ MsgPair(m1) # MsgPair(m2)
        /\ m1.conversation_id # m2.conversation_id
        /\ \E c \in conversations : c.id = m1.conversation_id /\ Pair(c) = MsgPair(m1)

\* C21: every committed Conversation owns at least one committed Message,
\* whatever mix of succeeding and failing sends and webhooks has run, and
\* no read answers with a conversation that has no message.
C21_NoEmptyConversation ==
    /\ \A c \in conversations : \E m \in messages : m.conversation_id = c.id
    /\ \A w \in Workers :
          pc[w] = "done" /\ response[w].status = 200 =>
            IF request[w].view = "detail"
            THEN Len(result[w]) >= 1
            ELSE \A i \in 1..Len(result[w]) : Len(result[w][i].messages) >= 1

C21_Witness ==
    \E w, r \in Workers :
        /\ pc[w] = "done"
        /\ created[w]
        /\ raised[w] \in {"IntegrityError", "ValidationError"}
        /\ conversations # {}
        /\ \A c \in conversations : c.id # conversation[w]
        /\ pc[r] = "done" /\ request[r].view = "list" /\ Len(result[r]) >= 1

====
